---- MODULE Spec2Model ----
(***************************************************************************)
(* Model of server.js, the backend of the cost-of-living calculator:       *)
(* the request handler GET /api/cost-of-living/:city, its two outbound     *)
(* fetches (scrapeNumbeo, searchReddit), the fallback table and the        *)
(* estimators.                                                             *)
(*                                                                         *)
(* Text is modelled as a sequence of one-character strings, so that        *)
(* trimming, lowercasing, stripping and pattern matching are computed      *)
(* character by character as the JavaScript does.  Amounts are modelled    *)
(* in hundredths (1234.5 is 123450); the texts the model feeds to          *)
(* parsePrice carry at most two decimals, so the arithmetic is exact.      *)
(***************************************************************************)
EXTENDS Integers, Sequences, FiniteSets, TLC

(***************************************************************************)
(* Text helpers: the JavaScript string primitives the code uses.           *)
(***************************************************************************)

\* What \s matches among the characters of the model.
Whitespace == {" ", "\t", "\n"}

\* What . does not match (no s flag on any pattern of server.js).
LineTerminators == {"\n"}

Digits == {"0", "1", "2", "3", "4", "5", "6", "7", "8", "9"}

LowerOf ==
  [A |-> "a", B |-> "b", C |-> "c", D |-> "d", E |-> "e", F |-> "f", G |-> "g",
   H |-> "h", I |-> "i", J |-> "j", K |-> "k", L |-> "l", M |-> "m", N |-> "n",
   O |-> "o", P |-> "p", Q |-> "q", R |-> "r", S |-> "s", T |-> "t", U |-> "u",
   V |-> "v", W |-> "w", X |-> "x", Y |-> "y", Z |-> "z"]

UpperLetters == DOMAIN LowerOf

LowerLetters == {LowerOf[c] : c \in UpperLetters}

\* \w of a JavaScript pattern: [A-Za-z0-9_].
WordChars == UpperLetters \cup LowerLetters \cup Digits \cup {"_"}

DigitValue ==
  [c \in Digits |->
     CASE c = "0" -> 0 [] c = "1" -> 1 [] c = "2" -> 2 [] c = "3" -> 3
       [] c = "4" -> 4 [] c = "5" -> 5 [] c = "6" -> 6 [] c = "7" -> 7
       [] c = "8" -> 8 [] c = "9" -> 9]

\* String.prototype.toLowerCase
toLowerCase(s) ==
  [i \in 1..Len(s) |-> IF s[i] \in UpperLetters THEN LowerOf[s[i]] ELSE s[i]]

\* s.replace(/[...]/g, '') for a character class: drop every character of cls.
StripChars(s, cls) == SelectSeq(s, LAMBDA c : c \notin cls)

\* String.prototype.trim
trim(s) ==
  LET keep == {i \in 1..Len(s) : s[i] \notin Whitespace}
  IN  IF keep = {} THEN <<>>
      ELSE LET lo == CHOOSE i \in keep : \A j \in keep : i <= j
               hi == CHOOSE i \in keep : \A j \in keep : j <= i
           IN  SubSeq(s, lo, hi)

\* s.replace(/\s+/g, rep): every maximal run of whitespace becomes rep.
RECURSIVE ReplaceWhitespaceRuns(_, _)
ReplaceWhitespaceRuns(s, rep) ==
  IF s = <<>> THEN <<>>
  ELSE IF Head(s) \in Whitespace
       THEN IF Len(s) > 1 /\ s[2] \in Whitespace
            THEN ReplaceWhitespaceRuns(Tail(s), rep)
            ELSE rep \o ReplaceWhitespaceRuns(Tail(s), rep)
       ELSE <<Head(s)>> \o ReplaceWhitespaceRuns(Tail(s), rep)

\* The literal pat occurs in s at position i.
OccursAt(s, pat, i) ==
  /\ i >= 1
  /\ i + Len(pat) - 1 <= Len(s)
  /\ \A k \in 1..Len(pat) : s[i + k - 1] = pat[k]

\* String.prototype.includes
includes(s, pat) == \E i \in 1..(Len(s) + 1) : OccursAt(s, pat, i)

\* s.split(',')[0]: the text before the first comma.
BeforeFirstComma(s) ==
  LET commas == {i \in 1..Len(s) : s[i] = ","}
  IN  IF commas = {} THEN s
      ELSE SubSeq(s, 1, (CHOOSE i \in commas : \A j \in commas : i <= j) - 1)

(***************************************************************************)
(* CityKeyNormalizer: the slug of the scrape URL.                          *)
(***************************************************************************)

\* The two-letter codes of the pattern of line 33, lowercased (the i flag).
StateCodes ==
  { <<"c","a">>, <<"n","y">>, <<"t","x">>, <<"f","l">>, <<"i","l">>, <<"w","a">>, <<"m","a">>, <<"c","o">>, <<"o","r">>, <<"a","z">>,
    <<"g","a">>, <<"n","c">>, <<"m","i">>, <<"p","a">>, <<"o","h">>, <<"n","j">>, <<"v","a">>, <<"t","n">>, <<"m","d">>, <<"m","n">>,
    <<"w","i">>, <<"m","o">>, <<"i","n">>, <<"s","c">>, <<"a","l">>, <<"k","y">>, <<"l","a">>, <<"o","k">>, <<"c","t">>, <<"u","t">>,
    <<"n","v">>, <<"k","s">>, <<"a","r">>, <<"m","s">>, <<"n","m">>, <<"n","e">>, <<"w","v">>, <<"i","d">>, <<"h","i">>, <<"m","e">>,
    <<"n","h">>, <<"r","i">>, <<"m","t">>, <<"d","e">>, <<"s","d">>, <<"n","d">>, <<"a","k">>, <<"v","t">>, <<"w","y">>, <<"d","c">> }

\* The end (exclusive) of a match of /,\s*(CODE)\b/i starting at position i
\* of s, or 0 when the pattern does not match there.
RECURSIVE SkipWhitespace(_, _)
SkipWhitespace(s, i) ==
  IF i <= Len(s) /\ s[i] \in Whitespace THEN SkipWhitespace(s, i + 1) ELSE i

StateCodeMatchEnd(s, i) ==
  IF i > Len(s) \/ s[i] # "," THEN 0
  ELSE LET j == SkipWhitespace(s, i + 1)
       IN  IF /\ j + 1 <= Len(s)
              /\ toLowerCase(SubSeq(s, j, j + 1)) \in StateCodes
              /\ (j + 2 > Len(s) \/ s[j + 2] \notin WordChars)
           THEN j + 2
           ELSE 0

\* s.replace(/,\s*(CA|NY|...)\b/i, ''): the leftmost match is removed, once.
StripStateCode(s) ==
  LET starts == {i \in 1..Len(s) : StateCodeMatchEnd(s, i) # 0}
  IN  IF starts = {} THEN s
      ELSE LET i == CHOOSE a \in starts : \A b \in starts : a <= b
           IN  SubSeq(s, 1, i - 1) \o SubSeq(s, StateCodeMatchEnd(s, i), Len(s))

\* [a-zA-Z0-9-], the characters the slug keeps.
SlugChars == UpperLetters \cup LowerLetters \cup Digits \cup {"-"}

cityFormatted(city) == StripStateCode(trim(city))

citySlug(city) ==
  SelectSeq(ReplaceWhitespaceRuns(trim(BeforeFirstComma(cityFormatted(city))), <<"-">>),
            LAMBDA c : c \in SlugChars)

(***************************************************************************)
(* PriceParser                                                             *)
(***************************************************************************)

\* JavaScript's null, and the values a price text parses to.
null == [kind |-> "null"]

NaN == [kind |-> "NaN"]

Number(h) == [kind |-> "number", value |-> h]

\* The value of a run of digits, most significant first.
RECURSIVE DigitsValue(_)
DigitsValue(ds) ==
  IF ds = <<>> THEN 0
  ELSE 10 * DigitsValue(SubSeq(ds, 1, Len(ds) - 1)) + DigitValue[ds[Len(ds)]]

\* The longest prefix of s made of characters of cls.
RECURSIVE PrefixOf(_, _)
PrefixOf(s, cls) ==
  IF s = <<>> \/ Head(s) \notin cls THEN <<>>
  ELSE <<Head(s)>> \o PrefixOf(Tail(s), cls)

\* parseFloat of a run of digits and dots: the longest prefix that is a
\* decimal literal (digits, at most one dot, digits), NaN when that prefix
\* has no digit.  The value is in hundredths.
parseFloat(run) ==
  LET int  == PrefixOf(run, Digits)
      rest == SubSeq(run, Len(int) + 1, Len(run))
      frac == IF rest # <<>> /\ Head(rest) = "." THEN PrefixOf(Tail(rest), Digits)
              ELSE <<>>
      two  == SubSeq(frac \o <<"0", "0">>, 1, 2)
  IN  IF int = <<>> /\ frac = <<>> THEN NaN
      ELSE Number(100 * DigitsValue(int) + DigitsValue(two))

\* cleaned.match(/[\d.]+/): the leftmost maximal run of digits and dots.
FirstNumericRun(s) ==
  LET starts == {i \in 1..Len(s) : s[i] \in Digits \cup {"."}}
  IN  IF starts = {} THEN <<>>
      ELSE LET i == CHOOSE a \in starts : \A b \in starts : a <= b
           IN  PrefixOf(SubSeq(s, i, Len(s)), Digits \cup {"."})

parsePrice(text) ==
  IF text = <<>> THEN null
  ELSE LET cleaned == trim(StripChars(text, {",", "$"}))
           match   == FirstNumericRun(cleaned)
       IN  IF match # <<>> THEN parseFloat(match) ELSE null

\* JavaScript truthiness of what parsePrice returns.
Truthy(p) == p.kind = "number" /\ p.value # 0

(***************************************************************************)
(* CategoryClassifier: the patterns of lines 92-113.                       *)
(***************************************************************************)

\* No character of s between positions a and b is a line terminator.
NoLineBreak(s, a, b) == \A i \in a..b : s[i] \notin LineTerminators

\* pieces[k], pieces[k+1], ... occur in s in this order, the first at or
\* after position pos, with only characters that . matches in between.
RECURSIVE MatchFrom(_, _, _, _)
MatchFrom(s, pieces, k, pos) ==
  \/ k > Len(pieces)
  \/ \E j \in pos..Len(s) :
       /\ OccursAt(s, pieces[k], j)
       /\ NoLineBreak(s, pos, j - 1)
       /\ MatchFrom(s, pieces, k + 1, j + Len(pieces[k]))

\* label.match(/p1.*p2.*...pn/i), the pieces given in lower case.
Matches(label, pieces) ==
  LET s == toLowerCase(label)
  IN  \E j \in 1..Len(s) :
        /\ OccursAt(s, pieces[1], j)
        /\ MatchFrom(s, pieces, 2, j + Len(pieces[1]))

CategoryKeys ==
  {"housingCenter", "housingOutside", "mealRestaurant", "transportation", "utilities"}

\* Classify with the housingOutside branch tested before the housingCenter
\* branch.
Classify_outsideFirst(label) ==
  IF \/ Matches(label, <<<<"a","p","a","r","t","m","e","n","t">>, <<"1">>, <<"b","e","d","r","o","o","m">>, <<"o","u","t","s","i","d","e">>>>)
     \/ Matches(label, <<<<"r","e","n","t">>, <<"1">>, <<"b","e","d">>, <<"o","u","t","s","i","d","e">>>>)
  THEN "housingOutside"
  ELSE IF \/ Matches(label, <<<<"a","p","a","r","t","m","e","n","t">>, <<"1">>, <<"b","e","d","r","o","o","m">>, <<"c","i","t","y">>, <<"c","e","n","t","r","e">>>>)
          \/ Matches(label, <<<<"r","e","n","t">>, <<"1">>, <<"b","e","d">>, <<"c","e","n","t","e","r">>>>)
  THEN "housingCenter"
  ELSE IF \/ Matches(label, <<<<"m","e","a","l">>, <<"i","n","e","x","p","e","n","s","i","v","e">>, <<"r","e","s","t","a","u","r","a","n","t">>>>)
          \/ Matches(label, <<<<"m","e","a","l">>, <<"c","h","e","a","p">>, <<"r","e","s","t","a","u","r","a","n","t">>>>)
  THEN "mealRestaurant"
  ELSE IF \/ Matches(label, <<<<"m","o","n","t","h","l","y">>, <<"p","a","s","s">>>>)
          \/ Matches(label, <<<<"p","u","b","l","i","c">>, <<"t","r","a","n","s","p","o","r","t">>>>)
  THEN "transportation"
  ELSE IF \/ Matches(label, <<<<"b","a","s","i","c">>, <<"u","t","i","l","i","t","i","e","s">>>>)
          \/ Matches(label, <<<<"e","l","e","c","t","r","i","c","i","t","y">>, <<"h","e","a","t","i","n","g">>, <<"c","o","o","l","i","n","g">>>>)
  THEN "utilities"
  ELSE "none"

\* The if / else-if chain of lines 92-116; "none" when no branch is taken.
Classify(label) ==
  IF \/ Matches(label, <<<<"a","p","a","r","t","m","e","n","t">>, <<"1">>, <<"b","e","d","r","o","o","m">>, <<"c","i","t","y">>, <<"c","e","n","t","r","e">>>>)
     \/ Matches(label, <<<<"r","e","n","t">>, <<"1">>, <<"b","e","d">>, <<"c","e","n","t","e","r">>>>)
  THEN "housingCenter"
  ELSE IF \/ Matches(label, <<<<"a","p","a","r","t","m","e","n","t">>, <<"1">>, <<"b","e","d","r","o","o","m">>, <<"o","u","t","s","i","d","e">>>>)
          \/ Matches(label, <<<<"r","e","n","t">>, <<"1">>, <<"b","e","d">>, <<"o","u","t","s","i","d","e">>>>)
  THEN "housingOutside"
  ELSE IF \/ Matches(label, <<<<"m","e","a","l">>, <<"i","n","e","x","p","e","n","s","i","v","e">>, <<"r","e","s","t","a","u","r","a","n","t">>>>)
          \/ Matches(label, <<<<"m","e","a","l">>, <<"c","h","e","a","p">>, <<"r","e","s","t","a","u","r","a","n","t">>>>)
  THEN "mealRestaurant"
  ELSE IF \/ Matches(label, <<<<"m","o","n","t","h","l","y">>, <<"p","a","s","s">>>>)
          \/ Matches(label, <<<<"p","u","b","l","i","c">>, <<"t","r","a","n","s","p","o","r","t">>>>)
  THEN "transportation"
  ELSE IF \/ Matches(label, <<<<"b","a","s","i","c">>, <<"u","t","i","l","i","t","i","e","s">>>>)
          \/ Matches(label, <<<<"e","l","e","c","t","r","i","c","i","t","y">>, <<"h","e","a","t","i","n","g">>, <<"c","o","o","l","i","n","g">>>>)
  THEN "utilities"
  ELSE "none"

(***************************************************************************)
(* TableScanner.  A document is a sequence of tables, a table a sequence   *)
(* of rows, a row the sequence of the texts of its td cells.               *)
(***************************************************************************)

\* An object with no own key, and obj[key] = value.
EmptyMap == [k \in {} |-> 0]

Put(obj, key, value) ==
  [k \in DOMAIN obj \cup {key} |-> IF k = key THEN value ELSE obj[k]]

\* obj[key]: undefined when obj has no such key.
undefined == [kind |-> "undefined"]

Get(obj, key) == IF key \in DOMAIN obj THEN Number(obj[key]) ELSE undefined

\* Or without its right-hand side: a missing value counts as 0.
Or_nodefault(p, dflt) == IF Truthy(p) THEN p.value ELSE 0

\* p || dflt, for p a number or undefined.
Or(p, dflt) == IF Truthy(p) THEN p.value ELSE dflt

\* The body of the row callback (lines 82-118) applied to data.
ScanRow(data, cells) ==
  IF Len(cells) >= 2
  THEN LET label == trim(cells[1])
           price == parsePrice(trim(cells[2]))
       IN  IF label # <<>> /\ Truthy(price)
           THEN LET key == Classify(label)
                IN  [data EXCEPT
                       !.rawData = Append(@, [label |-> label, price |-> price.value]),
                       !.categories = IF key = "none" THEN @
                                      ELSE Put(@, key, price.value)]
           ELSE data
  ELSE data

RECURSIVE ScanRows(_, _)
ScanRows(data, rows) ==
  IF rows = <<>> THEN data ELSE ScanRows(ScanRow(data, Head(rows)), Tail(rows))

\* tables.each(... find('tr').each(...)): every row of every table, in
\* document order.
RECURSIVE ScanTables(_, _)
ScanTables(data, tables) ==
  IF tables = <<>> THEN data
  ELSE ScanTables(ScanRows(data, Head(tables)), Tail(tables))

\* Lines 59-129: what scrapeNumbeo returns for a fetched document.
ParseDocument(tables) ==
  IF Len(tables) = 0 THEN null
  ELSE LET data == ScanTables([kind |-> "data", categories |-> EmptyMap,
                               rawData |-> <<>>], tables)
       IN  IF ~Truthy(Get(data.categories, "housingCenter"))
              /\ Len(data.rawData) = 0
           THEN null
           ELSE data

(***************************************************************************)
(* FallbackTable                                                           *)
(***************************************************************************)

\* The number n, in hundredths.
Units(n) == 100 * n

FallbackRecord(housing, outside, meal, transport, utilities) ==
  [housing |-> Units(housing), outside |-> Units(outside), meal |-> Units(meal),
   transport |-> Units(transport), utilities |-> Units(utilities)]

fallbackCities ==
  (<<"n","e","w"," ","y","o","r","k">> :> FallbackRecord(3500, 2500, 20, 127, 150)) @@
  (<<"n","e","w","y","o","r","k">> :> FallbackRecord(3500, 2500, 20, 127, 150)) @@
  (<<"l","o","n","d","o","n">> :> FallbackRecord(2200, 1600, 18, 165, 200)) @@
  (<<"t","o","k","y","o">> :> FallbackRecord(1200, 700, 10, 70, 150)) @@
  (<<"p","a","r","i","s">> :> FallbackRecord(1400, 1000, 15, 75, 180)) @@
  (<<"s","i","n","g","a","p","o","r","e">> :> FallbackRecord(2800, 2000, 10, 100, 150)) @@
  (<<"m","o","u","n","t","a","i","n"," ","v","i","e","w">> :> FallbackRecord(3200, 2600, 18, 100, 120)) @@
  (<<"m","o","u","n","t","a","i","n","v","i","e","w">> :> FallbackRecord(3200, 2600, 18, 100, 120)) @@
  (<<"m","o","u","n","t","a","i","n"," ","v","i","e","w",","," ","c","a">> :> FallbackRecord(3200, 2600, 18, 100, 120)) @@
  (<<"m","o","u","n","t","a","i","n","v","i","e","w","c","a">> :> FallbackRecord(3200, 2600, 18, 100, 120)) @@
  (<<"l","o","s"," ","a","n","g","e","l","e","s">> :> FallbackRecord(2500, 1800, 18, 100, 140)) @@
  (<<"l","o","s","a","n","g","e","l","e","s">> :> FallbackRecord(2500, 1800, 18, 100, 140)) @@
  (<<"l","o","s"," ","a","n","g","e","l","e","s",","," ","c","a">> :> FallbackRecord(2500, 1800, 18, 100, 140)) @@
  (<<"l","a">> :> FallbackRecord(2500, 1800, 18, 100, 140)) @@
  (<<"s","a","n"," ","f","r","a","n","c","i","s","c","o">> :> FallbackRecord(3600, 2800, 20, 98, 130)) @@
  (<<"s","a","n","f","r","a","n","c","i","s","c","o">> :> FallbackRecord(3600, 2800, 20, 98, 130)) @@
  (<<"s","e","a","t","t","l","e">> :> FallbackRecord(2300, 1700, 17, 99, 160)) @@
  (<<"a","u","s","t","i","n">> :> FallbackRecord(1700, 1300, 15, 75, 150)) @@
  (<<"b","o","s","t","o","n">> :> FallbackRecord(2900, 2100, 18, 90, 170)) @@
  (<<"c","h","i","c","a","g","o">> :> FallbackRecord(1900, 1400, 16, 105, 140))

\* fallbackCities is an object literal: besides its own keys, a lookup finds
\* the properties it inherits from Object.prototype.  Of those, the names
\* that a lowercased key without whitespace and commas can spell are these
\* two; both hold an object, which has none of the five fields.
InheritedKeys == {<<"c","o","n","s","t","r","u","c","t","o","r">>, <<"_","_","p","r","o","t","o","_","_">>}

cityKey(city) == StripChars(StripChars(toLowerCase(city), Whitespace), {","})

\* fallbackCities[cityKey] || null
getFallbackData(city) ==
  LET key == cityKey(city)
  IN  IF key \in DOMAIN fallbackCities
      THEN [kind |-> "object", fields |-> fallbackCities[key]]
      ELSE IF key \in InheritedKeys
      THEN [kind |-> "object", fields |-> EmptyMap]
      ELSE null

(***************************************************************************)
(* Estimator                                                               *)
(***************************************************************************)

\* Math.round of a number in hundredths: the nearest integer, halves up.
Math_round(h) == (h + 50) \div 100

estimateGroceries(mealPrice) ==
  IF ~Truthy(mealPrice) THEN 400
  ELSE Math_round((mealPrice.value * 60) \div 3)

(***************************************************************************)
(* The two fetches.  What a fetch ends with:                               *)
(*   [kind |-> "error"]     no connection                                  *)
(*   [kind |-> "timeout"]   axios gave up after its timeout                *)
(*   [kind |-> "status"]    a response whose status validateStatus rejects *)
(*   [kind |-> "ok", body |-> b]   a response axios accepts                *)
(*   [kind |-> "pending"]   not settled yet                                *)
(* A promise is pending, fulfilled with a value, or rejected.              *)
(***************************************************************************)

NotSettled == [kind |-> "pending"]

Pending == [state |-> "pending"]

Fulfilled(v) == [state |-> "fulfilled", value |-> v]

Rejected == [state |-> "rejected"]

\* The URL of line 42, as the slug it ends with.
NumbeoUrl(city) == [to |-> "numbeo", path |-> citySlug(city)]

\* The URL of line 147, as the query it carries.
RedditUrl(city) == [to |-> "reddit", path |-> city \o <<" ","c","o","s","t"," ","o","f"," ","l","i","v","i","n","g">>]

\* scrapeNumbeo with a catch block that rethrows.
scrapeNumbeo_rethrow(outcome) ==
  IF outcome.kind = "ok" THEN Fulfilled(ParseDocument(outcome.body))
  ELSE Rejected

\* scrapeNumbeo after its await: the try block parses an accepted response,
\* the catch block turns every failure into null.
scrapeNumbeo(outcome) ==
  IF outcome.kind = "ok" THEN Fulfilled(ParseDocument(outcome.body))
  ELSE Fulfilled(null)

\* A body of the discussion search is [data |-> FALSE] (no listing in it) or
\* [data |-> TRUE, children |-> a sequence of [title, permalink]].
RedditPosts(children) ==
  LET kept == SelectSeq(children, LAMBDA child : child.title # <<>>)
  IN  [i \in 1..Len(kept) |->
         [title |-> kept[i].title,
          url |-> <<"h","t","t","p","s",":","/","/","r","e","d","d","i","t",".","c","o","m">> \o kept[i].permalink]]

\* searchReddit with a catch block that rethrows.
searchReddit_rethrow(outcome) ==
  IF outcome.kind = "ok"
  THEN IF ~outcome.body.data THEN Fulfilled(<<>>)
       ELSE Fulfilled(RedditPosts(outcome.body.children))
  ELSE Rejected

\* searchReddit after its await.
searchReddit(outcome) ==
  IF outcome.kind = "ok"
  THEN IF ~outcome.body.data THEN Fulfilled(<<>>)
       ELSE Fulfilled(RedditPosts(outcome.body.children))
  ELSE Fulfilled(<<>>)

(***************************************************************************)
(* ResultAssembler: the handler of GET /api/cost-of-living/:city after     *)
(* its await (lines 232-317).                                              *)
(***************************************************************************)

\* redditPosts.slice(0, 5)
DiscussionLimit == 5

slice(s, n) == SubSeq(s, 1, IF Len(s) < n THEN Len(s) ELSE n)

LiveSources == <<"Numbeo.com (live)", "Reddit discussions">>

EstimatedSources == <<"Estimated data", "Reddit discussions">>

MountainHint == "Try: \"Mountain View\" without CA"

GenericHint ==
  "Try major cities like: New York, Los Angeles, San Francisco, Seattle, Chicago, Boston, Austin, or international cities like London, Tokyo, Paris"

StateCodeTip ==
  "For US cities, try without the state code (e.g., \"Los Angeles\" instead of \"Los Angeles, CA\")"

\* Lines 234-238: the scraped figures are used.
UseScraped(numbeoData) ==
  numbeoData # null /\ Truthy(Get(numbeoData.categories, "housingCenter"))

\* FromFallback with housing and outside exchanged.
FromFallback_swapped(fields) ==
  LET rename == [housing |-> "housingOutside", outside |-> "housingCenter",
                 meal |-> "mealRestaurant", transport |-> "transportation",
                 utilities |-> "utilities"]
      have   == DOMAIN fields \cap DOMAIN rename
  IN  [k \in {rename[f] : f \in have} |->
         fields[CHOOSE f \in have : rename[f] = k]]

\* Lines 260-266: the fallback object under the keys of the category map;
\* a field the object lacks leaves its key undefined.
FromFallback(fields) ==
  LET rename == [housing |-> "housingCenter", outside |-> "housingOutside",
                 meal |-> "mealRestaurant", transport |-> "transportation",
                 utilities |-> "utilities"]
      have   == DOMAIN fields \cap DOMAIN rename
  IN  [k \in {rename[f] : f \in have} |->
         fields[CHOOSE f \in have : rename[f] = k]]

\* Line 301.
Sources(numbeoData) ==
  IF numbeoData # null THEN LiveSources ELSE EstimatedSources

\* Lines 269-303: the CostResult (lastUpdated, the date of the answer, is
\* left out).
CostResult(city, finalData, numbeoData, redditPosts) ==
  [status |-> 200,
   city |-> city,
   currency |-> "USD",
   categories |->
     [housing |->
        [label |-> "Housing (1-bedroom apt)",
         cityCenter |-> Math_round(Or(Get(finalData, "housingCenter"), Units(1200))),
         outside |-> Math_round(Or(Get(finalData, "housingOutside"), Units(800)))],
      food |->
        [label |-> "Food & Groceries",
         monthly |-> estimateGroceries(Get(finalData, "mealRestaurant"))],
      transportation |->
        [label |-> "Transportation",
         monthly |-> Math_round(Or(Get(finalData, "transportation"), Units(70)))],
      utilities |->
        [label |-> "Utilities",
         monthly |-> Math_round(Or(Get(finalData, "utilities"), Units(150)))],
      entertainment |->
        [label |-> "Entertainment",
         monthly |-> Math_round(Or(Get(finalData, "mealRestaurant"), Units(15)) * 10)]],
   sources |-> Sources(numbeoData),
   redditDiscussions |-> slice(redditPosts, DiscussionLimit)]

\* Lines 247-256.
NotFound(city) ==
  [status |-> 404,
   error |-> "City not found",
   message |-> <<"Could not find cost of living data for \"", city,
                 "\". The city might not be in Numbeo's database.">>,
   suggestion |-> IF includes(toLowerCase(city), <<"m","o","u","n","t","a","i","n">>)
                  THEN MountainHint ELSE GenericHint,
   tip |-> StateCodeTip]

\* Lines 310-317.
ServerError ==
  [status |-> 500,
   error |-> "Server error",
   message |-> "An unexpected error occurred. Please try again."]

\* Lines 232-308, given what the two promises were fulfilled with.
Assemble(city, numbeoData, redditPosts) ==
  IF UseScraped(numbeoData)
  THEN CostResult(city, numbeoData.categories, numbeoData, redditPosts)
  ELSE LET fallback == getFallbackData(city)
       IN  IF fallback = null THEN NotFound(city)
           ELSE CostResult(city, FromFallback(fallback.fields), numbeoData,
                           redditPosts)

\* The try / catch of the handler: Promise.all rejects as soon as one of its
\* promises does, and the catch block answers with the server error.
Handle(city, numbeo, reddit) ==
  IF numbeo.state = "rejected" \/ reddit.state = "rejected" THEN ServerError
  ELSE Assemble(city, numbeo.value, reddit.value)

\* await Promise.all([p, q]) resumes when both are fulfilled, or as soon as
\* one is rejected.
PromiseAllSettled(p, q) ==
  \/ p.state = "fulfilled" /\ q.state = "fulfilled"
  \/ p.state = "rejected"
  \/ q.state = "rejected"

(***************************************************************************)
(* Bounds and the inputs the model draws from.                             *)
(***************************************************************************)

MaxRequests == 2

MaxRows == 2

Requests == 1..MaxRequests

\* The city names of the requests.
Cities ==
  { <<"n","e","w"," ","y","o","r","k">>, <<"N","e","w"," ","Y","o","r","k">>, <<"L","o","n","d","o","n">>, <<"t","o","k","y","o">>, <<"P","a","r","i","s">>, <<"S","i","n","g","a","p","o","r","e">>,
    <<"M","o","u","n","t","a","i","n"," ","V","i","e","w">>, <<"M","o","u","n","t","a","i","n"," ","V","i","e","w",","," ","C","A">>, <<"L","o","s"," ","A","n","g","e","l","e","s">>, <<"l","o","s"," "," ","A","N","G","E","L","E","S">>,
    <<"L","o","s"," ","A","n","g","e","l","e","s",","," ","C","A">>, <<"L","A">>, <<"S","a","n"," ","F","r","a","n","c","i","s","c","o">>, <<"S","e","a","t","t","l","e">>, <<"A","u","s","t","i","n">>,
    <<"B","o","s","t","o","n">>, <<"C","h","i","c","a","g","o">>, <<"N","o","w","h","e","r","e","v","i","l","l","e">>, <<"M","o","u","n","t","a","i","n"," ","T","o","p">>, <<"c","o","n","s","t","r","u","c","t","o","r">>,
    <<"!","!","!">>, <<","," ","C","A">> }

\* Rows a page of the scrape target may carry.
RowPool ==
  { <<<<"A","p","a","r","t","m","e","n","t"," ","(","1"," ","b","e","d","r","o","o","m",")"," ","i","n"," ","C","i","t","y"," ","C","e","n","t","r","e">>, <<"$","1",",","2","3","4",".","5","0">>>>,
    <<<<"A","p","a","r","t","m","e","n","t"," ","(","1"," ","b","e","d","r","o","o","m",")"," ","O","u","t","s","i","d","e"," ","o","f"," ","C","e","n","t","r","e">>, <<"9","0","0">>>>,
    <<<<"M","e","a","l",","," ","I","n","e","x","p","e","n","s","i","v","e"," ","R","e","s","t","a","u","r","a","n","t">>, <<"1","8",".","5","0">>>>,
    <<<<"M","o","n","t","h","l","y"," ","P","a","s","s">>, <<"6","5",".","0","0">>>>,
    <<<<"B","a","s","i","c"," ","U","t","i","l","i","t","i","e","s">>, <<"1","5","1",".","2","0">>>>,
    <<<<"G","a","s","o","l","i","n","e">>, <<"3",".","5","0">>>>,
    <<<<"R","e","n","t"," ","1"," ","b","e","d"," ","c","e","n","t","e","r">>, <<"N","/","A">>>> }

RowSeqs == UNION {[1..n -> RowPool] : n \in 0..MaxRows}

\* The pages: no table, one table of up to MaxRows rows, two tables of one
\* row each, two empty tables.
Documents ==
  {<<>>} \cup {<<rows>> : rows \in RowSeqs}
         \cup {<< <<a>>, <<b>> >> : a \in RowPool, b \in RowPool}
         \cup {<< <<>>, <<>> >>}

FailureKinds == {"error", "timeout", "status"}

Failures == {[kind |-> k] : k \in FailureKinds}

ScrapeOutcomes == Failures \cup {[kind |-> "ok", body |-> d] : d \in Documents}

Titled(n) == [title |-> <<"R","e","n","t","?">>, permalink |-> <<"/", "r", "/", n>>]

Untitled == [title |-> <<>>, permalink |-> <<"/","r","/","u">>]

\* The bodies of the discussion search: no listing, an empty listing, one
\* post, a post without title among titled ones, more posts than the
\* answer carries.
RedditBodies ==
  { [data |-> FALSE],
    [data |-> TRUE, children |-> <<>>],
    [data |-> TRUE, children |-> <<Titled("1")>>],
    [data |-> TRUE, children |-> <<Untitled, Titled("1"), Titled("2")>>],
    [data |-> TRUE,
     children |-> <<Titled("1"), Titled("2"), Titled("3"), Titled("4"),
                    Titled("5"), Titled("6")>>] }

RedditOutcomes == Failures \cup {[kind |-> "ok", body |-> b] : b \in RedditBodies}

\* The inputs of the runs about the table scan: rows with every kind of
\* label and of price text, a label that two patterns match, a key priced
\* twice, a row with one cell.
ScanRowPool ==
  { <<<<"A","p","a","r","t","m","e","n","t"," ","(","1"," ","b","e","d","r","o","o","m",")"," ","i","n"," ","C","i","t","y"," ","C","e","n","t","r","e">>, <<"$","1",",","2","3","4",".","5","0">>>>,
    <<<<"A","p","a","r","t","m","e","n","t"," ","(","1"," ","b","e","d","r","o","o","m",")"," ","i","n"," ","C","i","t","y"," ","C","e","n","t","r","e">>, <<" ","9","0","0"," ">>>>,
    <<<<"A","p","a","r","t","m","e","n","t"," ","(","1"," ","b","e","d","r","o","o","m",")"," ","i","n"," ","C","i","t","y"," ","C","e","n","t","r","e">>, <<"0">>>>,
    <<<<"A","p","a","r","t","m","e","n","t"," ","(","1"," ","b","e","d","r","o","o","m",")"," ","i","n"," ","C","i","t","y"," ","C","e","n","t","r","e">>, <<"N","/","A">>>>,
    <<<<"R","e","n","t"," ","1"," ","b","e","d"," ","o","u","t","s","i","d","e"," ","c","e","n","t","e","r">>, <<"7","0","0">>>>,
    <<<<"A","p","a","r","t","m","e","n","t"," ","(","1"," ","b","e","d","r","o","o","m",")"," ","O","u","t","s","i","d","e"," ","o","f"," ","C","e","n","t","r","e">>, <<"6","5","0">>>>,
    <<<<"M","e","a","l",","," ","I","n","e","x","p","e","n","s","i","v","e"," ","R","e","s","t","a","u","r","a","n","t">>, <<"1","8",".","5","0">>>>,
    <<<<"C","h","e","a","p"," ","R","e","s","t","a","u","r","a","n","t"," ","M","e","a","l">>, <<"1","2">>>>,
    <<<<"M","O","N","T","H","L","Y"," ","P","A","S","S">>, <<"6","5",".","0","0">>>>,
    <<<<"B","a","s","i","c"," ","U","t","i","l","i","t","i","e","s">>, <<"1","5","1",".","2","0">>>>,
    <<<<"G","a","s","o","l","i","n","e">>, <<"3",".","5","0">>, <<"4",".","1","0">>>>,
    <<<<"G","a","s","o","l","i","n","e">>, <<"0",".","0","0">>>>,
    <<<<"G","a","s","o","l","i","n","e">>, <<".">>>>,
    <<<<"G","a","s","o","l","i","n","e">>, <<>>>>,
    <<<<" "," ">>, <<"5">>>>,
    <<<<"M","o","n","t","h","l","y"," ","P","a","s","s"," ","6","5",".","0","0">>>> }

ScanRowSeqs == UNION {[1..n -> ScanRowPool] : n \in 0..MaxRows}

\* One table of up to MaxRows rows, or two tables of one row each.
ScanDocuments ==
  {<<rows>> : rows \in ScanRowSeqs}
    \cup {<< <<a>>, <<b>> >> : a \in ScanRowPool, b \in ScanRowPool}

ScanOutcomes == {[kind |-> "ok", body |-> d] : d \in ScanDocuments}

ScanCities == {<<"P","a","r","i","s">>}

\* The inputs of the runs with several requests in flight.
FewCities == {<<"n","e","w"," ","y","o","r","k">>, <<"N","o","w","h","e","r","e","v","i","l","l","e">>}

FewScrapeOutcomes ==
  { [kind |-> "timeout"],
    [kind |-> "ok",
     body |-> << << <<<<"R","e","n","t"," ","1"," ","b","e","d"," ","c","e","n","t","e","r">>, <<"$","1",",","2","3","4",".","5","0">>>> >> >>] }

FewRedditOutcomes ==
  { [kind |-> "error"],
    [kind |-> "ok",
     body |-> [data |-> TRUE,
               children |-> <<Titled("1")>>]] }

(***************************************************************************)
(* The server: the requests in flight.                                     *)
(***************************************************************************)

VARIABLES
  pc,             \* per request: "idle", "awaiting" (at the await), "done"
  city,           \* per request: req.params.city
  scrapeFetch,    \* per request: how the GET of the scrape target ended
  redditFetch,    \* per request: how the GET of the discussion search ended
  numbeoPromise,  \* per request: the promise of scrapeNumbeo(city)
  redditPromise,  \* per request: the promise of searchReddit(city)
  sent,           \* per request: the responses written to res, in order
  outbound        \* the outbound GETs issued so far

vars ==
  <<pc, city, scrapeFetch, redditFetch, numbeoPromise, redditPromise, sent, outbound>>

Init ==
  /\ pc = [r \in Requests |-> "idle"]
  /\ city = [r \in Requests |-> <<>>]
  /\ scrapeFetch = [r \in Requests |-> NotSettled]
  /\ redditFetch = [r \in Requests |-> NotSettled]
  /\ numbeoPromise = [r \in Requests |-> Pending]
  /\ redditPromise = [r \in Requests |-> Pending]
  /\ sent = [r \in Requests |-> <<>>]
  /\ outbound = {}

\* The GETs the handler issues before it reaches its await (lines 227-230):
\* scrapeNumbeo and searchReddit both run up to their own axios.get.
IssuedBy(r, c) ==
  { [request |-> r, url |-> NumbeoUrl(c)], [request |-> r, url |-> RedditUrl(c)] }

\* A request arrives: the handler starts both fetches and waits.
Receive(r, c) ==
  /\ pc[r] = "idle"
  /\ pc' = [pc EXCEPT ![r] = "awaiting"]
  /\ city' = [city EXCEPT ![r] = c]
  /\ outbound' = outbound \cup IssuedBy(r, c)
  /\ UNCHANGED <<scrapeFetch, redditFetch, numbeoPromise, redditPromise, sent>>

\* The GET of the scrape target ends; scrapeNumbeo runs to its return.
ScrapeSettle(r, o) ==
  /\ pc[r] # "idle"
  /\ numbeoPromise[r].state = "pending"
  /\ scrapeFetch' = [scrapeFetch EXCEPT ![r] = o]
  /\ numbeoPromise' = [numbeoPromise EXCEPT ![r] = scrapeNumbeo(o)]
  /\ UNCHANGED <<pc, city, redditFetch, redditPromise, sent, outbound>>

\* The GET of the discussion search ends; searchReddit runs to its return.
RedditSettle(r, o) ==
  /\ pc[r] # "idle"
  /\ redditPromise[r].state = "pending"
  /\ redditFetch' = [redditFetch EXCEPT ![r] = o]
  /\ redditPromise' = [redditPromise EXCEPT ![r] = searchReddit(o)]
  /\ UNCHANGED <<pc, city, scrapeFetch, numbeoPromise, sent, outbound>>

\* Respond with numbeoData kept in a variable of the module, which every
\* request in flight writes: the handler may read what another request's
\* scrape returned.
Respond_shared(r) ==
  /\ pc[r] = "awaiting"
  /\ PromiseAllSettled(numbeoPromise[r], redditPromise[r])
  /\ \E q \in Requests :
       /\ numbeoPromise[q].state = "fulfilled"
       /\ sent' = [sent EXCEPT
                     ![r] = Append(@, Handle(city[r], numbeoPromise[q], redditPromise[r]))]
  /\ pc' = [pc EXCEPT ![r] = "done"]
  /\ UNCHANGED <<city, scrapeFetch, redditFetch, numbeoPromise, redditPromise, outbound>>

\* The await resumes and the handler runs to its end, writing one response.
Respond(r) ==
  /\ pc[r] = "awaiting"
  /\ PromiseAllSettled(numbeoPromise[r], redditPromise[r])
  /\ sent' = [sent EXCEPT
                ![r] = Append(@, Handle(city[r], numbeoPromise[r], redditPromise[r]))]
  /\ pc' = [pc EXCEPT ![r] = "done"]
  /\ UNCHANGED <<city, scrapeFetch, redditFetch, numbeoPromise, redditPromise, outbound>>

\* One request, every input.
Next ==
  \/ \E c \in Cities : Receive(1, c)
  \/ \E o \in ScrapeOutcomes : ScrapeSettle(1, o)
  \/ \E o \in RedditOutcomes : RedditSettle(1, o)
  \/ Respond(1)

Spec == Init /\ [][Next]_vars

\* One request whose scrape target answers with a page to scan.
ScanNext ==
  \/ \E c \in ScanCities : Receive(1, c)
  \/ \E o \in ScanOutcomes : ScrapeSettle(1, o)
  \/ RedditSettle(1, [kind |-> "timeout"])
  \/ Respond(1)

ScanSpec == Init /\ [][ScanNext]_vars

\* Several requests in flight, interleaved in every order.
ConcNext ==
  \E r \in Requests :
    \/ \E c \in FewCities : Receive(r, c)
    \/ \E o \in FewScrapeOutcomes : ScrapeSettle(r, o)
    \/ \E o \in FewRedditOutcomes : RedditSettle(r, o)
    \/ Respond(r)

ConcSpec == Init /\ [][ConcNext]_vars

\* axios settles each GET within its timeout (15 s and 5 s), and the event
\* loop runs every continuation that is ready.
LiveSpec ==
  /\ ConcSpec
  /\ \A r \in Requests :
       /\ WF_vars(\E o \in FewScrapeOutcomes : ScrapeSettle(r, o))
       /\ WF_vars(\E o \in FewRedditOutcomes : RedditSettle(r, o))
       /\ WF_vars(Respond(r))

(***************************************************************************)
(* Properties.                                                             *)
(***************************************************************************)

Done(r) == pc[r] = "done"

\* The response of a request that has answered.
Response(r) == sent[r][1]

Succeeded(r) == Done(r) /\ Response(r).status = 200

\* What scrapeNumbeo returned to request r.
Scraped(r) == numbeoPromise[r].value

\* The scrape gave nothing: a transport failure, a page without table, or a
\* page whose rows left the raw list empty.
ScrapeFailed(r) ==
  \/ scrapeFetch[r].kind \in FailureKinds
  \/ scrapeFetch[r].kind = "ok" /\ Scraped(r) = null

ScrapedHousingCenter(r) ==
  Scraped(r) # null /\ "housingCenter" \in DOMAIN Scraped(r).categories

Registered(c) == cityKey(c) \in DOMAIN fallbackCities

\* The five amounts of a CostResult, as a tuple.
Amounts(resp) ==
  <<resp.categories.housing.cityCenter, resp.categories.housing.outside,
    resp.categories.food.monthly, resp.categories.transportation.monthly,
    resp.categories.utilities.monthly, resp.categories.entertainment.monthly>>

\* The amounts the claims state for a fallback record (its fields are whole
\* numbers, in hundredths).
RecordAmounts(rec) ==
  <<rec.housing \div 100, rec.outside \div 100, 20 * (rec.meal \div 100),
    rec.transport \div 100, rec.utilities \div 100, 10 * (rec.meal \div 100)>>

\* C1: every success response is marked live exactly when the scraped
\* category map had a housingCenter (and so supplied the figures), and
\* estimated whenever the figures come from the fallback record.
C1_SourcesMatchDataUsed ==
  \A r \in Requests :
    Succeeded(r) =>
      Response(r).sources =
        IF ScrapedHousingCenter(r) THEN LiveSources ELSE EstimatedSources

\* C2: the not-found error is sent only if the scrape failed (or left the raw
\* list empty) and the fallback lookup missed; a scrape that classified at
\* least one category makes the request succeed, whatever the city.
C2_PartialScrapeSucceeds ==
  \A r \in Requests :
    Done(r) =>
      /\ Response(r).status = 404 =>
           ScrapeFailed(r) /\ getFallbackData(city[r]) = null
      /\ (Scraped(r) # null /\ DOMAIN Scraped(r).categories # {}) =>
           Response(r).status = 200

\* C3: for a city whose key is registered with record rec, a failed scrape
\* yields the success response with rec's amounts (housing, outside,
\* round(meal*60/3), transport, utilities, round(meal*10)) marked estimated;
\* for "new york" these are 3500, 2500, 400, 127, 150, 200.
C3_FallbackFigures ==
  \A r \in Requests :
    (Done(r) /\ Registered(city[r]) /\ ScrapeFailed(r)) =>
      /\ Response(r).status = 200
      /\ Amounts(Response(r)) = RecordAmounts(fallbackCities[cityKey(city[r])])
      /\ Response(r).sources = EstimatedSources
      /\ city[r] = <<"n","e","w"," ","y","o","r","k">> =>
           Amounts(Response(r)) = <<3500, 2500, 400, 127, 150, 200>>

C3_Witness ==
  \E r \in Requests :
    /\ Done(r)
    /\ city[r] = <<"n","e","w"," ","y","o","r","k">>
    /\ scrapeFetch[r].kind = "timeout"
    /\ Response(r).categories.housing.cityCenter = 3500

\* The category keys the data source of request r's answer supplied: those
\* the scrape classified, all five of a registered fallback record, none of
\* an object the lookup found that is no record.
ChosenKeys(r) ==
  IF ScrapedHousingCenter(r) THEN DOMAIN Scraped(r).categories
  ELSE IF Registered(city[r]) THEN CategoryKeys
  ELSE {}

C5_SeedCitiesResolve ==
  \A r \in Requests :
    (Done(r) /\ ScrapeFailed(r)) =>
      /\ city[r] \in {<<"L","o","s"," ","A","n","g","e","l","e","s">>, <<"l","o","s"," "," ","A","N","G","E","L","E","S">>, <<"L","o","s"," ","A","n","g","e","l","e","s",","," ","C","A">>} =>
           /\ Response(r).status = 200
           /\ Amounts(Response(r)) = RecordAmounts(fallbackCities[<<"l","o","s"," ","a","n","g","e","l","e","s">>])
      /\ city[r] \in {<<"M","o","u","n","t","a","i","n"," ","V","i","e","w">>, <<"M","o","u","n","t","a","i","n"," ","V","i","e","w",","," ","C","A">>} =>
           /\ Response(r).status = 200
           /\ Amounts(Response(r)) = RecordAmounts(fallbackCities[<<"m","o","u","n","t","a","i","n"," ","v","i","e","w">>])

\* C6: whatever the two fetches end with, the one response is the success
\* or the not-found response, never the server error; a failed discussion
\* fetch gives an empty discussion list and the status and amounts every
\* other discussion outcome gives; a failed scrape fetch gives what the
\* fallback lookup gives.
C6_TransportFailureNeverFails ==
  \A r \in Requests :
    Done(r) =>
      /\ Len(sent[r]) = 1
      /\ Response(r).status \in {200, 404}
      /\ (redditFetch[r].kind \in FailureKinds /\ Response(r).status = 200) =>
           Response(r).redditDiscussions = <<>>
      /\ \A o \in RedditOutcomes :
           LET other == Handle(city[r], numbeoPromise[r], searchReddit(o))
           IN  /\ other.status = Response(r).status
               /\ other.status = 200 => other.categories = Response(r).categories
      /\ scrapeFetch[r].kind \in FailureKinds =>
           /\ Scraped(r) = null
           /\ getFallbackData(city[r]) = null => Response(r).status = 404
           /\ getFallbackData(city[r]) # null =>
                /\ Response(r).status = 200
                /\ Response(r).sources = EstimatedSources
           /\ Registered(city[r]) =>
                Amounts(Response(r)) = RecordAmounts(fallbackCities[cityKey(city[r])])

C6_Witness ==
  \E r \in Requests :
    /\ Done(r)
    /\ scrapeFetch[r].kind = "error"
    /\ redditFetch[r].kind = "status"
    /\ Response(r).status = 200
    /\ Response(r).redditDiscussions = <<>>

\* C7: when the scrape gives no usable housingCenter and the city's key is
\* not registered in the fallback table, the response is the not-found
\* error with error, message, a suggestion and a tip and no CostResult
\* field; the suggestion is the Mountain View hint exactly when the
\* lowercased city contains "mountain".
C7_UnregisteredIsNotFound ==
  \A r \in Requests :
    (Done(r) /\ ~ScrapedHousingCenter(r) /\ ~Registered(city[r])) =>
      /\ Response(r).status = 404
      /\ DOMAIN Response(r) = {"status", "error", "message", "suggestion", "tip"}
      /\ Response(r).tip # ""
      /\ Response(r).suggestion =
           IF includes(toLowerCase(city[r]), <<"m","o","u","n","t","a","i","n">>)
           THEN MountainHint ELSE GenericHint

FetchesSettled(r) ==
  scrapeFetch[r].kind # "pending" /\ redditFetch[r].kind # "pending"

\* C8: a request issues both fetches before it waits; in every order of
\* their completion it sends exactly one response (success, not-found or
\* server error), only after both fetches have settled, and never another;
\* as each fetch settles within its timeout, every request that has arrived
\* gets its response.
C8_OneResponseAfterBoth ==
  /\ [](\A r \in Requests :
          /\ Len(sent[r]) <= 1
          /\ Done(r) <=> Len(sent[r]) = 1
          /\ pc[r] # "idle" => IssuedBy(r, city[r]) \subseteq outbound
          /\ Len(sent[r]) = 1 =>
               FetchesSettled(r) /\ Response(r).status \in {200, 404, 500})
  /\ [][\A r \in Requests : sent[r] # <<>> => sent'[r] = sent[r]]_vars
  /\ \A r \in Requests : (pc[r] = "awaiting") ~> (Len(sent[r]) = 1)

C8_Witness ==
  \E r, q \in Requests :
    /\ Len(sent[r]) = 1
    /\ pc[q] = "awaiting"
    /\ redditFetch[q].kind # "pending"
    /\ scrapeFetch[q].kind = "pending"

\* C9: with any number of requests interleaved, each answer is the one the
\* request gets when handled alone with the same fetch outcomes, and two
\* requests with the same city and the same fetch outcomes get the same
\* status, amounts and sources.
C9_RequestsIndependent ==
  \A r \in Requests :
    Done(r) =>
      /\ Response(r) =
           Handle(city[r], scrapeNumbeo(scrapeFetch[r]), searchReddit(redditFetch[r]))
      /\ \A q \in Requests :
           (/\ Done(q)
            /\ city[q] = city[r]
            /\ scrapeFetch[q] = scrapeFetch[r]
            /\ redditFetch[q] = redditFetch[r]) =>
             Response(q) = Response(r)

C9_Witness ==
  \E r, q \in Requests :
    /\ r # q
    /\ Succeeded(r) /\ Succeeded(q)
    /\ city[r] = city[q]
    /\ scrapeFetch[r] = scrapeFetch[q]
    /\ redditFetch[r] = redditFetch[q]
    /\ scrapeFetch[r].kind = "ok"

\* C10: a city whose slug is empty causes no GET of the scrape target.
C10_EmptySlugSkipsScrape ==
  \A r \in Requests :
    (pc[r] # "idle" /\ citySlug(city[r]) = <<>>) =>
      ~\E m \in outbound : m.request = r /\ m.url.to = "numbeo"

\* The rows of a fetched page, in document order.
RECURSIVE Flatten(_)
Flatten(tables) ==
  IF tables = <<>> THEN <<>> ELSE Head(tables) \o Flatten(Tail(tables))

\* The raw list request r's scan ended with (scrapeNumbeo returns null for
\* a page with tables exactly when that list is empty).
RawListOf(r) == IF Scraped(r) = null THEN <<>> ELSE Scraped(r).rawData

CategoriesOf(r) == IF Scraped(r) = null THEN EmptyMap ELSE Scraped(r).categories

\* A row the raw list is to record: two cells or more, a label, and a price
\* text that parses to a number, 0 included.
Recordable(cells) ==
  /\ Len(cells) >= 2
  /\ trim(cells[1]) # <<>>
  /\ parsePrice(trim(cells[2])).kind = "number"

RawRow(cells) ==
  [label |-> trim(cells[1]), price |-> parsePrice(trim(cells[2])).value]

Scanned(r) == scrapeFetch[r].kind = "ok" /\ Len(scrapeFetch[r].body) > 0

\* C11: after a scan the raw list holds, in document order, every row with
\* at least two cells, a non-empty label and a price text that parses, a
\* price of 0 included, classified or not; a row whose price text gives no
\* value is not in the list and has written nothing to the category map.
C11_RawListHoldsEveryParsedRow ==
  \A r \in Requests :
    Scanned(r) =>
      LET rows == SelectSeq(Flatten(scrapeFetch[r].body), Recordable)
      IN  /\ RawListOf(r) = [i \in 1..Len(rows) |-> RawRow(rows[i])]
          /\ \A k \in DOMAIN CategoriesOf(r) :
               \E i \in 1..Len(rows) : RawRow(rows[i]).price = CategoriesOf(r)[k]

\* C11 with "parses" read as the code reads it: to a number other than 0.
C11_ExceptZero ==
  \A r \in Requests :
    Scanned(r) =>
      LET rows == SelectSeq(Flatten(scrapeFetch[r].body),
                            LAMBDA c : Recordable(c) /\ RawRow(c).price # 0)
      IN  /\ RawListOf(r) = [i \in 1..Len(rows) |-> RawRow(rows[i])]
          /\ \A k \in DOMAIN CategoriesOf(r) :
               \E i \in 1..Len(rows) : RawRow(rows[i]).price = CategoriesOf(r)[k]

\* The categories in the order of their rules.
RuleOrder ==
  <<"housingCenter", "housingOutside", "mealRestaurant", "transportation", "utilities">>

\* The keyword condition of rule k other than rule 3: one of these lists of
\* words occurs in the label, in this order, on one line, in any case.
RuleWords(k) ==
  CASE k = 1 -> { <<<<"a","p","a","r","t","m","e","n","t">>, <<"1">>, <<"b","e","d","r","o","o","m">>, <<"c","i","t","y">>, <<"c","e","n","t","r","e">>>>,
                  <<<<"r","e","n","t">>, <<"1">>, <<"b","e","d">>, <<"c","e","n","t","e","r">>>> }
    [] k = 2 -> { <<<<"a","p","a","r","t","m","e","n","t">>, <<"1">>, <<"b","e","d","r","o","o","m">>, <<"o","u","t","s","i","d","e">>>>,
                  <<<<"r","e","n","t">>, <<"1">>, <<"b","e","d">>, <<"o","u","t","s","i","d","e">>>> }
    [] k = 4 -> { <<<<"m","o","n","t","h","l","y">>, <<"p","a","s","s">>>>, <<<<"p","u","b","l","i","c">>, <<"t","r","a","n","s","p","o","r","t">>>> }
    [] k = 5 -> { <<<<"b","a","s","i","c">>, <<"u","t","i","l","i","t","i","e","s">>>>,
                  <<<<"e","l","e","c","t","r","i","c","i","t","y">>, <<"h","e","a","t","i","n","g">>, <<"c","o","o","l","i","n","g">>>> }

\* Rule 3 as three substrings of the label, wherever they stand.
MealAsSubstrings(label) ==
  LET s == toLowerCase(label)
  IN  /\ includes(s, <<"m","e","a","l">>)
      /\ includes(s, <<"i","n","e","x","p","e","n","s","i","v","e">>) \/ includes(s, <<"c","h","e","a","p">>)
      /\ includes(s, <<"r","e","s","t","a","u","r","a","n","t">>)

\* Rule 3 as three substrings of the label that follow one another.
MealInOrder(label) ==
  \/ Matches(label, <<<<"m","e","a","l">>, <<"i","n","e","x","p","e","n","s","i","v","e">>, <<"r","e","s","t","a","u","r","a","n","t">>>>)
  \/ Matches(label, <<<<"m","e","a","l">>, <<"c","h","e","a","p">>, <<"r","e","s","t","a","u","r","a","n","t">>>>)

\* The category of the first rule that holds of the label, "none" without
\* one; Meal(_) is the condition of rule 3.
FirstRule(label, Meal(_)) ==
  LET holds == {k \in 1..5 : IF k = 3 THEN Meal(label)
                             ELSE \E w \in RuleWords(k) : Matches(label, w)}
  IN  IF holds = {} THEN "none"
      ELSE RuleOrder[CHOOSE k \in holds : \A j \in holds : k <= j]

\* The category map a raw list leaves when every row is classified by
\* FirstRule and a later row overwrites an earlier one of the same key.
LastWins(raw, Meal(_)) ==
  LET at(key) == {i \in 1..Len(raw) : FirstRule(raw[i].label, Meal) = key}
      keys    == {key \in CategoryKeys : at(key) # {}}
  IN  [key \in keys |->
         raw[CHOOSE i \in at(key) : \A j \in at(key) : j <= i].price]

\* C12 as stated: each recorded row gets the category of the first rule, in
\* the order housingCenter, housingOutside, mealRestaurant, transportation,
\* utilities, that the label satisfies in any case, rule 3 being "meal" and
\* ("inexpensive" or "cheap") and "restaurant" as substrings of the label;
\* after a scan each key holds the price of the last row classified to it
\* and is absent if no row was.
C12_FirstRuleLastRow_Substrings ==
  \A r \in Requests :
    Scanned(r) => CategoriesOf(r) = LastWins(RawListOf(r), MealAsSubstrings)

\* C12 as amended: the same, rule 3 being "meal", then "inexpensive" or
\* "cheap", then "restaurant", as substrings of the label in that order on
\* one line.
C12_FirstRuleLastRow ==
  \A r \in Requests :
    Scanned(r) => CategoriesOf(r) = LastWins(RawListOf(r), MealInOrder)

C12_Witness ==
  \E r \in Requests :
    /\ Scanned(r)
    /\ Len(RawListOf(r)) = 2
    /\ RawListOf(r)[1].price = 123450
    /\ FirstRule(RawListOf(r)[1].label, MealInOrder) = "housingCenter"
    /\ RawListOf(r)[2].label = <<"R","e","n","t"," ","1"," ","b","e","d"," ","o","u","t","s","i","d","e"," ","c","e","n","t","e","r">>
    /\ CategoriesOf(r) = Put(EmptyMap, "housingCenter", 70000)

====
